---- MODULE Spec2Model ----
(***************************************************************************)
(* Model of research_app.py: the paper evaluation engine (evaluate_paper), *)
(* the search that builds evaluated paper records, and the session state   *)
(* (score, inventory, trash, search results) the tabs operate on.          *)
(*                                                                         *)
(* Conventions.  Python None / an absent dictionary key is the empty       *)
(* tuple <<>> and a present value v is <<v>>.  A float that the program    *)
(* only ever multiplies into an int() is kept as an integer numerator      *)
(* (topic_multiplier in tenths).  Text that the program inspects (titles,  *)
(* keywords) is a tuple of one-character strings.  The Korean literals of  *)
(* the source are written in English.                                      *)
(***************************************************************************)
EXTENDS Integers, Sequences, FiniteSets, TLC

(***************************************************************************)
(* Bounds of the model                                                     *)
(***************************************************************************)
MaxCit == 8
MaxRef == 5
MaxAuthors == 5
MaxClicks == 6
MaxAnalysisClicks == 3
MaxPageClicks == 5

(***************************************************************************)
(* Python helpers                                                          *)
(***************************************************************************)
None == <<>>
Some(v) == <<v>>
IsNone(o) == o = <<>>
Val(o) == o[1]

min(a, b) == IF a <= b THEN a ELSE b
max(a, b) == IF a >= b THEN a ELSE b

(* ceil(e^(k/15)) for k = 1, 2, ...: int(math.log(n) * 15) >= k exactly    *)
(* when n >= ExpCeil15[k].  The table covers every n up to 10001.          *)
ExpCeil15 == <<
    2, 2, 2, 2, 2, 2, 2, 2, 2, 2, 3, 3, 3, 3, 3, 3,
    4, 4, 4, 4, 5, 5, 5, 5, 6, 6, 7, 7, 7, 8, 8, 9,
    10, 10, 11, 12, 12, 13, 14, 15, 16, 17, 18, 19, 21, 22, 23, 25,
    27, 29, 30, 33, 35, 37, 40, 42, 45, 48, 52, 55, 59, 63, 67, 72,
    77, 82, 88, 94, 100, 107, 114, 122, 130, 139, 149, 159, 170, 182, 194, 208,
    222, 237, 253, 271, 290, 309, 331, 354, 378, 404, 432, 461, 493, 527, 564, 602,
    644, 688, 736, 786, 840, 898, 960, 1026, 1097, 1173, 1254, 1340, 1432, 1531, 1636, 1749,
    1870, 1999, 2136, 2284, 2441, 2609, 2789, 2981, 3187, 3407, 3641, 3892, 4161, 4448, 4754, 5082,
    5432, 5807, 6207, 6635, 7092, 7581, 8104, 8662, 9259, 9898 >>

(* ceil(e^(k/4)) for k = 1, 2, ...: int(math.log(n) * 4) >= k exactly when *)
(* n >= ExpCeil4[k].  The table covers every n up to 10001.                *)
ExpCeil4 == <<
    2, 2, 3, 3, 4, 5, 6, 8, 10, 13, 16, 21, 26, 34, 43, 55,
    71, 91, 116, 149, 191, 245, 315, 404, 519, 666, 855, 1097, 1409, 1809, 2322, 2981,
    3828, 4915, 6311, 8104 >>

(* ceil(e^((k - 0.5)/15)) for k = 1, 2, ...: round(math.log(n) * 15) >= k  *)
(* exactly when n >= ExpCeilHalf15[k].  The table covers every n up to     *)
(* 10001.                                                                  *)
ExpCeilHalf15 == <<
    2, 2, 2, 2, 2, 2, 2, 2, 2, 2, 3, 3, 3, 3, 3, 3,
    4, 4, 4, 4, 4, 5, 5, 5, 6, 6, 6, 7, 7, 8, 8, 9,
    9, 10, 10, 11, 12, 13, 14, 14, 15, 16, 18, 19, 20, 21, 23, 24,
    26, 28, 29, 31, 34, 36, 38, 41, 44, 47, 50, 53, 57, 61, 65, 69,
    74, 79, 85, 91, 97, 103, 110, 118, 126, 135, 144, 154, 165, 176, 188, 201,
    215, 229, 245, 262, 280, 299, 320, 342, 366, 391, 418, 446, 477, 510, 545, 583,
    623, 666, 711, 761, 813, 869, 929, 993, 1061, 1134, 1212, 1296, 1385, 1481, 1583, 1692,
    1809, 1933, 2066, 2209, 2361, 2524, 2698, 2884, 3082, 3295, 3522, 3765, 4024, 4302, 4598, 4915,
    5254, 5616, 6003, 6417, 6860, 7332, 7838, 8378, 8956, 9573 >>

(* ceil(e^((k - 0.5)/4)) for k = 1, 2, ...: round(math.log(n) * 4) >= k    *)
(* exactly when n >= ExpCeilHalf4[k].  The table covers every n up to      *)
(* 10001.                                                                  *)
ExpCeilHalf4 == <<
    2, 2, 2, 3, 4, 4, 6, 7, 9, 11, 14, 18, 23, 30, 38, 49,
    62, 80, 103, 131, 169, 216, 278, 357, 458, 587, 754, 968, 1243, 1596, 2049, 2631,
    3378, 4338, 5570, 7151, 9182 >>

(* int(math.log(n) * 15) for 1 <= n <= 10001 *)
int_log_15(n) == Cardinality({k \in DOMAIN ExpCeil15 : ExpCeil15[k] <= n})

(* int(math.log(n) * 4) for 1 <= n <= 10001 *)
int_log_4(n) == Cardinality({k \in DOMAIN ExpCeil4 : ExpCeil4[k] <= n})

UpperChars == <<"A","B","C","D","E","F","G","H","I","J","K","L","M","N","O","P","Q","R","S","T","U","V","W","X","Y","Z">>
LowerChars == <<"a","b","c","d","e","f","g","h","i","j","k","l","m","n","o","p","q","r","s","t","u","v","w","x","y","z">>

(* str.lower() *)
lower(text) ==
    [i \in DOMAIN text |->
        IF \E j \in DOMAIN UpperChars : UpperChars[j] = text[i]
        THEN LowerChars[CHOOSE j \in DOMAIN UpperChars : UpperChars[j] = text[i]]
        ELSE text[i]]

(* k in text, for strings *)
contains(text, k) ==
    \E i \in 1..(Len(text) - Len(k) + 1) : SubSeq(text, i, i + Len(k) - 1) = k

(***************************************************************************)
(* Constants of the program                                                *)
(***************************************************************************)
EVIDENCE_KEYWORDS == <<
    <<"i","n"," ","v","i","v","o">>,
    <<"i","n"," ","v","i","t","r","o">>,
    <<"r","a","n","d","o","m","i","z","e","d">>,
    <<"e","f","f","i","c","a","c","y">>,
    <<"m","e","c","h","a","n","i","s","m">>,
    <<"s","i","g","n","a","l","i","n","g">>,
    <<"e","x","p","e","r","i","m","e","n","t">>,
    <<"a","n","a","l","y","s","i","s">>,
    <<"c","l","i","n","i","c","a","l">>,
    <<"a","c","t","i","v","i","t","y">>,
    <<"s","y","n","t","h","e","s","i","s">>,
    <<"d","e","s","i","g","n">>,
    <<"e","v","a","l","u","a","t","i","o","n">>,
    <<"c","h","a","r","a","c","t","e","r","i","z","a","t","i","o","n">>,
    <<"p","r","o","p","e","r","t","i","e","s">>,
    <<"p","e","r","f","o","r","m","a","n","c","e">>,
    <<"a","p","p","l","i","c","a","t","i","o","n">> >>

get_current_year == 2026

STATUS_VALID == "valid"
STATUS_UNCERTAIN == "uncertain"
STATUS_SUSPECTED == "suspected"

REASON_MISSING_METADATA == "missing metadata"
REASON_FEW_REFERENCES == "insufficient references"
REASON_LOW_TRUST == "low data reliability"
REASON_OBSOLETE == "obsolete research"

(***************************************************************************)
(* evaluate_paper                                                          *)
(***************************************************************************)

(* has_evidence = any(k in title_lower for k in EVIDENCE_KEYWORDS) *)
has_evidence(title_lower) ==
    \E n \in DOMAIN EVIDENCE_KEYWORDS : contains(title_lower, EVIDENCE_KEYWORDS[n])

(* is_big_team = author_count >= 5 *)
is_big_team(author_count) == author_count >= 5

(* mutant: an absent ref_count is collapsed to 0 before the check *)
integrity_check_none_as_zero(ref_count, citation_count) ==
    LET refs == IF IsNone(ref_count) THEN 0 ELSE Val(ref_count)
    IN  IF refs < 5 /\ citation_count < 5
        THEN [integrity_status |-> STATUS_SUSPECTED, risk_reason |-> REASON_FEW_REFERENCES]
        ELSE [integrity_status |-> STATUS_VALID, risk_reason |-> ""]

(* mutant: the reason is set from ref_count before citation_count is looked at *)
integrity_check_reason_early(ref_count, citation_count) ==
    IF IsNone(ref_count)
    THEN IF citation_count < 5
         THEN [integrity_status |-> STATUS_UNCERTAIN, risk_reason |-> REASON_MISSING_METADATA]
         ELSE [integrity_status |-> STATUS_VALID, risk_reason |-> REASON_MISSING_METADATA]
    ELSE IF Val(ref_count) < 5
         THEN IF citation_count < 5
              THEN [integrity_status |-> STATUS_SUSPECTED, risk_reason |-> REASON_FEW_REFERENCES]
              ELSE [integrity_status |-> STATUS_VALID, risk_reason |-> REASON_FEW_REFERENCES]
         ELSE [integrity_status |-> STATUS_VALID, risk_reason |-> ""]

(* mutant: the citation threshold of the check is 51 instead of 5 *)
integrity_check_citations_51(ref_count, citation_count) ==
    IF IsNone(ref_count)
    THEN IF citation_count < 51
         THEN [integrity_status |-> STATUS_UNCERTAIN, risk_reason |-> REASON_MISSING_METADATA]
         ELSE [integrity_status |-> STATUS_VALID, risk_reason |-> ""]
    ELSE IF Val(ref_count) < 5 /\ citation_count < 51
         THEN [integrity_status |-> STATUS_SUSPECTED, risk_reason |-> REASON_FEW_REFERENCES]
         ELSE [integrity_status |-> STATUS_VALID, risk_reason |-> ""]

(* integrity_status and risk_reason from ref_count and citation_count *)
integrity_check(ref_count, citation_count) ==
    IF IsNone(ref_count)
    THEN IF citation_count < 5
         THEN [integrity_status |-> STATUS_UNCERTAIN, risk_reason |-> REASON_MISSING_METADATA]
         ELSE [integrity_status |-> STATUS_VALID, risk_reason |-> ""]
    ELSE IF Val(ref_count) < 5 /\ citation_count < 5
         THEN [integrity_status |-> STATUS_SUSPECTED, risk_reason |-> REASON_FEW_REFERENCES]
         ELSE [integrity_status |-> STATUS_VALID, risk_reason |-> ""]

(* mutant: the logarithm term is rounded to the nearest integer *)
raw_score_rounded(citation_count) ==
    min(99, 5 + Cardinality({k \in DOMAIN ExpCeilHalf15 :
                                ExpCeilHalf15[k] <= citation_count + 1}))

(* mutant: the score wraps at 100 instead of being capped at 99 *)
raw_score_wrapping(citation_count) == (5 + int_log_15(citation_count + 1)) % 100

(* raw_score = min(99, int(5 + (math.log(citation_count + 1) * 15))) *)
raw_score(citation_count) == min(99, 5 + int_log_15(citation_count + 1))

(* math.log(citation_count + 1) raises ValueError when its argument is not *)
(* positive; nothing in evaluate_paper catches it                          *)
evaluate_raises(paper_data) == paper_data.citations + 1 <= 0

(* mutant: a big team adds 20 *)
debiased_base_team_20(evidence, big_team) ==
    30 + (IF evidence THEN 30 ELSE 0) + (IF big_team THEN 20 ELSE 0)

(* debiased_base and the Evidence / Team entries of score_breakdown *)
debiased_base(evidence, big_team) ==
    30 + (IF evidence THEN 30 ELSE 0) + (IF big_team THEN 10 ELSE 0)

(* base_volume_discount with the recency correction *)
base_volume_discount(citation_count, age) ==
    LET discount == min(25, int_log_4(citation_count + 1))
    IN  IF age <= 2 THEN discount \div 10
        ELSE IF age <= 5 THEN discount \div 2
        ELSE discount

(* mutant: the product is rounded to the nearest integer *)
final_volume_penalty_rounded(discount, topic_multiplier) ==
    (discount * topic_multiplier + 5) \div 10

(* final_volume_penalty = int(base_volume_discount * topic_multiplier) *)
final_volume_penalty(discount, topic_multiplier) == (discount * topic_multiplier) \div 10

(* mutant: only an uncertain paper is floored, a suspected one keeps its score *)
apply_override_uncertain_only(debiased_score, integrity_status, risk_reason, age, citation_count) ==
    IF integrity_status = STATUS_UNCERTAIN
    THEN [debiased_score |-> 5,
          integrity_penalty |-> -(debiased_score - 5),
          risk_reason |-> IF risk_reason # "" THEN risk_reason ELSE REASON_LOW_TRUST]
    ELSE IF age > 10 /\ citation_count < 5
    THEN [debiased_score |-> 5,
          integrity_penalty |-> -(debiased_score - 5),
          risk_reason |-> REASON_OBSOLETE]
    ELSE [debiased_score |-> debiased_score,
          integrity_penalty |-> 0,
          risk_reason |-> risk_reason]

(* mutant: the obsolete-research test asks for an uncited paper *)
apply_override_uncited_only(debiased_score, integrity_status, risk_reason, age, citation_count) ==
    IF integrity_status # STATUS_VALID
    THEN [debiased_score |-> 5,
          integrity_penalty |-> -(debiased_score - 5),
          risk_reason |-> IF risk_reason # "" THEN risk_reason ELSE REASON_LOW_TRUST]
    ELSE IF age > 10 /\ citation_count < 1
    THEN [debiased_score |-> 5,
          integrity_penalty |-> -(debiased_score - 5),
          risk_reason |-> REASON_OBSOLETE]
    ELSE [debiased_score |-> debiased_score,
          integrity_penalty |-> 0,
          risk_reason |-> risk_reason]

(* mutant: the penalty is taken after debiased_score was reset to 5 *)
apply_override_penalty_late(debiased_score, integrity_status, risk_reason, age, citation_count) ==
    IF integrity_status # STATUS_VALID
    THEN [debiased_score |-> 5,
          integrity_penalty |-> -(5 - 5),
          risk_reason |-> IF risk_reason # "" THEN risk_reason ELSE REASON_LOW_TRUST]
    ELSE IF age > 10 /\ citation_count < 5
    THEN [debiased_score |-> 5,
          integrity_penalty |-> -(5 - 5),
          risk_reason |-> REASON_OBSOLETE]
    ELSE [debiased_score |-> debiased_score,
          integrity_penalty |-> 0,
          risk_reason |-> risk_reason]

(* the integrity / obsolete-research override of debiased_score *)
apply_override(debiased_score, integrity_status, risk_reason, age, citation_count) ==
    IF integrity_status # STATUS_VALID
    THEN [debiased_score |-> 5,
          integrity_penalty |-> -(debiased_score - 5),
          risk_reason |-> IF risk_reason # "" THEN risk_reason ELSE REASON_LOW_TRUST]
    ELSE IF age > 10 /\ citation_count < 5
    THEN [debiased_score |-> 5,
          integrity_penalty |-> -(debiased_score - 5),
          risk_reason |-> REASON_OBSOLETE]
    ELSE [debiased_score |-> debiased_score,
          integrity_penalty |-> 0,
          risk_reason |-> risk_reason]

(* mutant: only the upper limit is applied *)
clamp_debiased_upper_only(debiased_score) == min(95, debiased_score)

(* debiased_score = max(5, min(95, debiased_score)) *)
clamp_debiased(debiased_score) == max(5, min(95, debiased_score))

(* bias_penalty = raw_score - debiased_score *)
bias_penalty(raw, debiased) == raw - debiased

(* mutant: the bubble test uses the threshold 20 of the overheated caption *)
potential_type_bubble_20(debiased_score, penalty, integrity_status) ==
    IF debiased_score > 70 /\ penalty < 0 THEN "amazing"
    ELSE IF penalty > 20 THEN "bubble"
    ELSE IF integrity_status # STATUS_VALID THEN "bad"
    ELSE "normal"

(* potential_type *)
potential_type(debiased_score, penalty, integrity_status) ==
    IF debiased_score > 70 /\ penalty < 0 THEN "amazing"
    ELSE IF penalty > 30 THEN "bubble"
    ELSE IF integrity_status # STATUS_VALID THEN "bad"
    ELSE "normal"

(* the local variables of evaluate_paper as they stand before the final    *)
(* clamp of debiased_score                                                 *)
evaluate_locals(paper_data, topic_multiplier) ==
    LET age == get_current_year - paper_data.year
        citation_count == paper_data.citations
        evidence == has_evidence(lower(paper_data.title))
        big_team == is_big_team(paper_data.author_count)
        integrity == integrity_check(paper_data.ref_count, citation_count)
        base == debiased_base(evidence, big_team)
        volume == final_volume_penalty(base_volume_discount(citation_count, age), topic_multiplier)
        over == apply_override(base - volume, integrity.integrity_status,
                               integrity.risk_reason, age, citation_count)
    IN  [raw_score |-> raw_score(citation_count),
         debiased_score |-> over.debiased_score,
         risk_reason |-> over.risk_reason,
         has_evidence |-> evidence,
         is_big_team |-> big_team,
         integrity_status |-> integrity.integrity_status,
         score_breakdown |-> [Base |-> 30,
                              Evidence |-> IF evidence THEN 30 ELSE 0,
                              Team |-> IF big_team THEN 10 ELSE 0,
                              VolumePenalty |-> -volume,
                              IntegrityPenalty |-> over.integrity_penalty],
         age |-> age,
         citation_count |-> citation_count]

(* the dictionary evaluate_paper returns *)
evaluate_paper(paper_data, topic_multiplier) ==
    LET l == evaluate_locals(paper_data, topic_multiplier)
        debiased == clamp_debiased(l.debiased_score)
        penalty == bias_penalty(l.raw_score, debiased)
    IN  [raw_score |-> l.raw_score,
         debiased_score |-> debiased,
         bias_penalty |-> penalty,
         potential_type |-> potential_type(debiased, penalty, l.integrity_status),
         risk_reason |-> l.risk_reason,
         has_evidence |-> l.has_evidence,
         is_big_team |-> l.is_big_team,
         integrity_status |-> l.integrity_status,
         score_breakdown |-> l.score_breakdown,
         age |-> l.age,
         citation_count |-> l.citation_count]

(***************************************************************************)
(* State                                                                   *)
(***************************************************************************)
VARIABLES
    paper_data,        \* the record handed to evaluate_paper
    topic_multiplier,  \* its topic_multiplier argument, in tenths
    eval_result,       \* None, or the dictionary evaluate_paper returned
    earlier,           \* None, or citation_count and raw_score of the evaluation before
    score,             \* st.session_state.score
    inventory,         \* st.session_state.inventory
    trash,             \* st.session_state.trash
    search_results,    \* st.session_state.search_results
    bias_summary,      \* st.session_state.bias_summary
    search_page,       \* st.session_state.search_page
    analysis_page,     \* st.session_state.analysis_page
    is_exact_search,   \* st.session_state.is_exact_search
    sort_option,       \* st.session_state.sort_option
    analysis_weights,  \* st.session_state.analysis_weights, in hundredths
    sort_selector,     \* the value of the radio widget keyed "sort_selector"
    raised,            \* None, or the exception that ended the last script run
    answer,            \* None, or what Crossref and PubMed answered to the last search
    clicks_left        \* the number of clicks the session still has

eval_vars == <<paper_data, topic_multiplier, eval_result, earlier>>

session_vars ==
    <<score, inventory, trash, search_results, bias_summary, search_page,
      analysis_page, is_exact_search, sort_option, analysis_weights, sort_selector,
      raised>>

vars == <<eval_vars, session_vars, answer, clicks_left>>

SORT_POTENTIAL == "Potential"
SORT_IMPACT == "Impact"
SORT_LATEST == "Latest"
SORT_RELEVANCE == "Relevance"

(* the session state of lines 387-398 after the login of a new user *)
SessionInit ==
    /\ score = 0
    /\ inventory = <<>>
    /\ trash = <<>>
    /\ search_results = <<>>
    /\ bias_summary = None
    /\ search_page = 1
    /\ analysis_page = 1
    /\ is_exact_search = FALSE
    /\ sort_option = SORT_POTENTIAL
    /\ analysis_weights = [evidence |-> 100, recency |-> 100, team |-> 100, scarcity |-> 100]
    /\ sort_selector = SORT_POTENTIAL
    /\ raised = None
    /\ answer = None

(***************************************************************************)
(* Inputs of evaluate_paper                                                *)
(***************************************************************************)
BigCitations == {50, 525, 526, 5000}
Citations == (0..MaxCit) \cup BigCitations
RefCounts == {None} \cup {Some(n) : n \in 0..MaxRef}
Ages == {-1, 0, 1, 2, 3, 5, 6, 10, 11, 15}
Years == {get_current_year - a : a \in Ages}
AuthorCounts == 1..MaxAuthors
Titles == { <<"I","n"," ","V","i","v","o">>, <<"N","o","t","e">> }
TopicMultipliers == {10, 12, 15, 20}

PaperData ==
    [title : Titles, year : Years, citations : Citations,
     author_count : AuthorCounts, ref_count : RefCounts]

(***************************************************************************)
(* EvalSpec: one call of evaluate_paper on any input                       *)
(***************************************************************************)
EvalInit ==
    /\ paper_data \in PaperData
    /\ topic_multiplier \in TopicMultipliers
    /\ eval_result = None
    /\ earlier = None
    /\ SessionInit
    /\ clicks_left = 0

Evaluate ==
    /\ IsNone(eval_result)
    /\ eval_result' = Some(evaluate_paper(paper_data, topic_multiplier))
    /\ UNCHANGED <<paper_data, topic_multiplier, earlier>>
    /\ UNCHANGED <<session_vars, answer, clicks_left>>

EvalNext == Evaluate

EvalSpec == EvalInit /\ [][EvalNext]_vars

(***************************************************************************)
(* CiteSpec: a paper is evaluated, and evaluated again after its metadata  *)
(* (in particular its citation count) has changed                          *)
(***************************************************************************)
CitePaperData ==
    [title : {<<"N","o","t","e">>}, year : {get_current_year - 1, get_current_year - 11},
     citations : Citations, author_count : {1}, ref_count : {None, Some(MaxRef)}]

CiteInit ==
    /\ paper_data \in CitePaperData
    /\ topic_multiplier \in {10, 20}
    /\ eval_result = None
    /\ earlier = None
    /\ SessionInit
    /\ clicks_left = 0

Reevaluate ==
    /\ ~IsNone(eval_result)
    /\ \E pd \in CitePaperData :
        /\ paper_data' = pd
        /\ UNCHANGED topic_multiplier
        /\ earlier' = Some([citation_count |-> Val(eval_result).citation_count,
                            raw_score |-> Val(eval_result).raw_score])
        /\ eval_result' = Some(evaluate_paper(pd, topic_multiplier))
    /\ UNCHANGED <<session_vars, answer, clicks_left>>

CiteNext == Evaluate \/ Reevaluate

CiteSpec == CiteInit /\ [][CiteNext]_vars

(***************************************************************************)
(* search_crossref_api                                                     *)
(*                                                                         *)
(* A query is the text typed by the user.  What Crossref answers is a list *)
(* of items and what PubMed answers is a count or nothing.  Every item of  *)
(* the catalogue carries a DOI and a title that passes the word and        *)
(* invalid-title filters of lines 263-273; author_count is the number of   *)
(* its valid authors.  A paper object keeps the fields the tabs compute    *)
(* with; title, authors, journal and url are only displayed and are left   *)
(* out.  oid is the identity of the Python dictionary: two list entries    *)
(* with the same oid are the same object.                                  *)
(***************************************************************************)
Queries == { <<"x">>, <<"\"", "x", "\"">> }

ITEM_A ==
    [DOI |-> "10.1/a", title |-> <<"I","n"," ","V","i","v","o">>, cit |-> 0,
     year |-> Some(get_current_year - 1), author_count |-> 1, reference_count |-> Some(12)]
ITEM_B ==
    [DOI |-> "10.1/b", title |-> <<"N","o","t","e">>, cit |-> 2,
     year |-> None, author_count |-> 2, reference_count |-> None]
ITEM_C ==
    [DOI |-> "10.1/c", title |-> <<"N","o","t","e">>, cit |-> 5000,
     year |-> Some(get_current_year - 12), author_count |-> 6, reference_count |-> Some(40)]
ITEM_D ==
    [DOI |-> "10.1/d", title |-> <<"N","o","t","e">>, cit |-> 7,
     year |-> Some(get_current_year - 4), author_count |-> 0, reference_count |-> Some(0)]

ITEM_N ==
    [DOI |-> "10.1/n", title |-> <<"N","o","t","e">>, cit |-> -1,
     year |-> Some(get_current_year - 3), author_count |-> 1, reference_count |-> Some(9)]

(* an item whose published date-parts name next year: an issue dated ahead *)
ITEM_F ==
    [DOI |-> "10.1/f", title |-> <<"I","n"," ","V","i","v","o">>, cit |-> 3,
     year |-> Some(get_current_year + 1), author_count |-> 2, reference_count |-> Some(20)]

(* the answers of Crossref: nothing, a flagged paper ranked before a valid *)
(* one, and an item without authors ranked before a much cited old paper   *)
Batches == { <<>>, <<ITEM_B, ITEM_A>>, <<ITEM_D, ITEM_C>> }

PubmedCounts == {None, Some(20000)}

(* an answer whose only item is dated ahead of the current year *)
AheadBatches == { <<ITEM_F>> }

(* an answer whose first record carries a negative citation count *)
MalformedBatches == { <<ITEM_N, ITEM_A>> }

(* the counts of PubMed around the three breakpoints, and no count *)
TopicCounts ==
    {None} \cup {Some(n) : n \in {0, 1, 1000, 1001, 5000, 5001, 10000, 10001, 20000}}

(* is_exact_mode = query.startswith('"') and query.endswith('"') *)
is_exact_mode(query) == Len(query) > 0 /\ query[1] = "\"" /\ query[Len(query)] = "\""

(* mutant: the breakpoints are counted in *)
topic_multiplier_of_at_least(pubmed_count) ==
    IF IsNone(pubmed_count) \/ Val(pubmed_count) = 0 THEN 10
    ELSE IF Val(pubmed_count) >= 10000 THEN 20
    ELSE IF Val(pubmed_count) >= 5000 THEN 15
    ELSE IF Val(pubmed_count) >= 1000 THEN 12
    ELSE 10

(* topic_multiplier from pubmed_count, in tenths *)
topic_multiplier_of(pubmed_count) ==
    IF IsNone(pubmed_count) \/ Val(pubmed_count) = 0 THEN 10
    ELSE IF Val(pubmed_count) > 10000 THEN 20
    ELSE IF Val(pubmed_count) > 5000 THEN 15
    ELSE IF Val(pubmed_count) > 1000 THEN 12
    ELSE 10

(* pub_year = y if y else current_year - 5 *)
pub_year(item) ==
    IF IsNone(item.year) \/ Val(item.year) = 0 THEN get_current_year - 5 ELSE Val(item.year)

paper_data_for_eval(item) ==
    [title |-> item.title, year |-> pub_year(item), citations |-> item.cit,
     author_count |-> item.author_count, ref_count |-> item.reference_count]

(* paper_obj for the item at position idx (from 0) of the answer *)
paper_obj(item, idx, multiplier, oid) ==
    LET ev == evaluate_paper(paper_data_for_eval(item), multiplier)
    IN  [oid |-> oid,
         id |-> item.DOI,
         author_full_count |-> item.author_count,
         year |-> pub_year(item),
         citations |-> item.cit,
         ref_count |-> IF IsNone(item.reference_count) THEN 0 ELSE Val(item.reference_count),
         raw_score |-> ev.raw_score,
         debiased_score |-> ev.debiased_score,
         bias_penalty |-> ev.bias_penalty,
         potential_type |-> ev.potential_type,
         risk_reason |-> ev.risk_reason,
         has_evidence |-> ev.has_evidence,
         is_big_team |-> ev.is_big_team,
         integrity_status |-> ev.integrity_status,
         score_breakdown |-> ev.score_breakdown,
         age |-> ev.age,
         citation_count |-> ev.citation_count,
         is_reviewed |-> FALSE,
         original_rank |-> idx,
         final_score |-> None,
         reason |-> None,
         custom_score |-> None]

(* list.sort(key=..., reverse=...): the stable sort in which x goes before *)
(* y when Prec(x, y), and equal elements keep their order                  *)
StableSort(seq, Prec(_, _)) ==
    LET n == Len(seq)
        pos(i) == 1 + Cardinality({j \in 1..n :
                          \/ Prec(seq[j], seq[i])
                          \/ (~Prec(seq[i], seq[j]) /\ j < i)})
    IN  [k \in 1..n |-> seq[CHOOSE i \in 1..n : pos(i) = k]]

ByPotential(x, y) == x.debiased_score > y.debiased_score
ByImpact(x, y) == x.raw_score > y.raw_score
ByYear(x, y) == x.year > y.year
ByRank(x, y) == x.original_rank < y.original_rank

SeqSum(seq) ==
    LET sum[i \in 0..Len(seq)] == IF i = 0 THEN 0 ELSE sum[i - 1] + seq[i]
    IN  sum[Len(seq)]

(* the n smallest object identities not in used, in increasing order *)
RECURSIVE FreshOids(_, _)
FreshOids(used, n) ==
    IF n = 0 THEN <<>>
    ELSE LET o == CHOOSE x \in 1..(Cardinality(used) + 1) :
                      x \notin used /\ \A y \in 1..(x - 1) : y \in used
         IN  <<o>> \o FreshOids(used \cup {o}, n - 1)

(* the value of search_crossref_api(query): valid_papers, bias_summary and *)
(* is_exact_mode.  The paper objects are new; they get their identities    *)
(* when the session stores them.                                           *)
search_crossref_api(query, items, pubmed_count) ==
    IF items = <<>>
    THEN [papers |-> <<>>, summary |-> None, exact |-> FALSE]
    ELSE
    LET multiplier == topic_multiplier_of(pubmed_count)
        kept == {i \in DOMAIN items : items[i].author_count > 0}
        rank(i) == Cardinality({j \in kept : j <= i})
        valid_papers ==
            [k \in 1..Cardinality(kept) |->
                LET i == CHOOSE j \in kept : rank(j) = k
                IN  paper_obj(items[i], i - 1, multiplier, 0)]
        citations_list == [i \in DOMAIN items |-> items[i].cit]
        years_list == {pub_year(items[i]) : i \in {j \in DOMAIN items : ~IsNone(items[j].year)}}
        avg_citations == SeqSum(citations_list) \div Len(citations_list)
        period == IF years_list = {} THEN None
                  ELSE Some(<<CHOOSE y \in years_list : \A z \in years_list : y <= z,
                              CHOOSE y \in years_list : \A z \in years_list : y >= z>>)
        summary == [pubmed_count |-> pubmed_count,
                    avg_citations |-> avg_citations,
                    period |-> period,
                    is_high_exposure |->
                        \/ (~IsNone(pubmed_count) /\ Val(pubmed_count) > 5000)
                        \/ avg_citations > 100,
                    multiplier |-> multiplier]
        exact == is_exact_mode(query)
    IN  [papers |-> IF exact THEN valid_papers ELSE StableSort(valid_papers, ByPotential),
         summary |-> Some(summary),
         exact |-> exact]

(* the items that reach evaluate_paper: those the author filter keeps *)
evaluated_items(items) == SelectSeq(items, LAMBDA item : item.author_count > 0)

(* the call search_crossref_api(query) is ended by the exception of the    *)
(* first evaluate_paper that raises: the item loop catches nothing         *)
search_raises(items) ==
    \E i \in DOMAIN items :
        /\ items[i].author_count > 0
        /\ evaluate_raises(paper_data_for_eval(items[i]))

(* one search request: what the two sources answered and how the call      *)
(* search_crossref_api(query) ended, by an exception or with a value.      *)
(* PubMed is not asked when Crossref answers no items.                     *)
search_request(query, items, pubmed_count) ==
    IF items = <<>>
    THEN [items |-> items, pubmed_count |-> None,
          raised |-> None,
          papers |-> <<>>, summary |-> None, exact |-> FALSE]
    ELSE IF search_raises(items)
    THEN [items |-> items, pubmed_count |-> pubmed_count,
          raised |-> Some("ValueError"),
          papers |-> <<>>, summary |-> None, exact |-> FALSE]
    ELSE LET found == search_crossref_api(query, items, pubmed_count)
         IN  [items |-> items, pubmed_count |-> pubmed_count,
              raised |-> None,
              papers |-> found.papers, summary |-> found.summary, exact |-> found.exact]

(* the search requests of a session: every query and every answer of the   *)
(* two sources                                                             *)
crossref_answers ==
    { search_request(query, items, pubmed_count) :
        query \in Queries, items \in Batches, pubmed_count \in PubmedCounts }

(* the search requests of a session that only searches: the answers above, *)
(* the malformed answer, the answer dated ahead, and every count of PubMed *)
topic_answers ==
    { search_request(query, items, pubmed_count) :
        query \in Queries, items \in Batches \cup MalformedBatches \cup AheadBatches,
        pubmed_count \in TopicCounts }

(***************************************************************************)
(* The tabs.  Every action is one click together with the script run it    *)
(* triggers.  Each script run sorts search_results in place by the radio   *)
(* widget (lines 605-612) when there are results; a widget that a run does *)
(* not draw loses its value and shows its first option when drawn again.   *)
(***************************************************************************)
items_per_page == 50

SeqToSet(seq) == {seq[i] : i \in DOMAIN seq}

Remove(seq, i) == [k \in 1..(Len(seq) - 1) |-> IF k < i THEN seq[k] ELSE seq[k + 1]]

(* lines 605-612 *)
sort_results(results, sort_opt) ==
    IF sort_opt = SORT_POTENTIAL THEN StableSort(results, ByPotential)
    ELSE IF sort_opt = SORT_IMPACT THEN StableSort(results, ByImpact)
    ELSE IF sort_opt = SORT_LATEST THEN StableSort(results, ByYear)
    ELSE StableSort(results, ByRank)

(* the objects in use besides those of search_results *)
kept_oids == {p.oid : p \in SeqToSet(inventory) \cup SeqToSet(trash)}

(* is_owned = any(p['id'] == paper['id'] for p in st.session_state.inventory) *)
is_owned(paper) == \E p \in SeqToSet(inventory) : p.id = paper.id

(* the indices of the list entries drawn on page number page *)
page_indices(total, page) ==
    {i \in 1..total : (page - 1) * items_per_page < i /\ i <= page * items_per_page}

(* an assignment to the object oid is seen through every list that holds it *)
assign(list, oid, Update(_)) ==
    [i \in DOMAIN list |-> IF list[i].oid = oid THEN Update(list[i]) ELSE list[i]]

(* paper.get('final_score', paper.get('debiased_score', 0)) *)
value_of(paper) ==
    IF IsNone(paper.final_score) THEN paper.debiased_score ELSE Val(paper.final_score)

ByValue(x, y) == value_of(x) > value_of(y)

(* display_items for the two choices of inv_sort_opt *)
display_orders == {inventory, StableSort(inventory, ByValue)}

(* the key of the review button drawn for an unreviewed paper *)
review_key(paper) ==
    IF paper.is_reviewed THEN None
    ELSE IF paper.integrity_status = STATUS_VALID THEN Some(<<"rev", paper.id>>)
    ELSE Some(<<"force", paper.id>>)

distinct_ids(list) == \A i, j \in DOMAIN list : i # j => list[i].id # list[j].id

(* Streamlit stops the run at the first widget whose key was already used  *)
(* in it: the review button of entry i is drawn when the entries before it *)
(* were drawn completely and none of them used its key                     *)
review_drawn(display_items, i) ==
    /\ distinct_ids(SubSeq(display_items, 1, i - 1))
    /\ \A j \in 1..(i - 1) : review_key(display_items[j]) # review_key(display_items[i])

(* the delete button of entry i, keyed del_<id>, comes after its review button *)
delete_drawn(display_items, i) == distinct_ids(SubSeq(display_items, 1, i))

(* the trash tab is drawn after the whole inventory tab *)
trash_drawn == distinct_ids(inventory)

(* one more click of the session, and the script run it triggers, which    *)
(* completes or is ended by an exception                                   *)
Run(exception) ==
    /\ clicks_left > 0
    /\ clicks_left' = clicks_left - 1
    /\ raised' = exception

(* a click on a widget of a tab, whose run completes *)
Click ==
    /\ Run(None)
    /\ UNCHANGED <<eval_vars, answer>>

(* lines 519-525 followed by the sort of the same run *)
store_search(found) ==
    LET oids == FreshOids(kept_oids, Len(found.papers))
        results == [k \in DOMAIN found.papers |-> [found.papers[k] EXCEPT !.oid = oids[k]]]
    IN  /\ search_results' = IF results = <<>> THEN <<>>
                             ELSE sort_results(results, sort_selector)
        /\ bias_summary' = found.summary
        /\ is_exact_search' = found.exact
        /\ search_page' = 1
        /\ sort_option' = IF found.exact THEN SORT_RELEVANCE ELSE SORT_POTENTIAL
        /\ sort_selector' = IF found.papers = <<>> THEN SORT_POTENTIAL ELSE sort_selector
        /\ UNCHANGED <<score, inventory, trash, analysis_page, analysis_weights>>

(* lines 517-525: the click on the search button.  An exception out of     *)
(* search_crossref_api ends the run before anything is stored.             *)
search_click(request) ==
    /\ answer' = Some([items |-> request.items, pubmed_count |-> request.pubmed_count])
    /\ IF IsNone(request.raised)
       THEN store_search(request)
       ELSE UNCHANGED <<score, inventory, trash, search_results, bias_summary,
                        search_page, analysis_page, is_exact_search, sort_option,
                        analysis_weights, sort_selector>>
    /\ Run(request.raised)

Search ==
    \E request \in crossref_answers :
        /\ search_click(request)
        /\ UNCHANGED eval_vars

(* the user picks a sort in the radio of lines 597-603 *)
SelectSort ==
    /\ search_results # <<>>
    /\ \E sort_opt \in {SORT_POTENTIAL, SORT_IMPACT, SORT_LATEST, SORT_RELEVANCE} :
        /\ sort_opt # sort_selector
        /\ sort_selector' = sort_opt
        /\ search_results' = sort_results(search_results, sort_opt)
    /\ UNCHANGED <<score, inventory, trash, bias_summary, search_page, analysis_page,
                   is_exact_search, sort_option, analysis_weights>>
    /\ Click

(* lines 657-665 *)
CollectSearch ==
    /\ \E i \in page_indices(Len(search_results), search_page) :
        LET paper == search_results[i]
        IN  /\ ~is_owned(paper)
            /\ inventory' = Append(inventory, paper)
            /\ score' = score + paper.debiased_score
    /\ UNCHANGED <<trash, search_results, bias_summary, search_page, analysis_page,
                   is_exact_search, sort_option, analysis_weights, sort_selector>>
    /\ Click

(* int(x) of a quotient: truncation toward zero *)
int_div(a, b) == IF a >= 0 THEN a \div b ELSE -((-a) \div b)

(* lines 718-737: the weights the four preset buttons set *)
PRESET_BALANCE == [evidence |-> 100, recency |-> 100, team |-> 100, scarcity |-> 100]
PRESET_HIDDEN_GEM == [evidence |-> 200, recency |-> 100, team |-> 100, scarcity |-> 300]
PRESET_TREND == [evidence |-> 200, recency |-> 300, team |-> 50, scarcity |-> 100]
PRESET_LARGE == [evidence |-> 100, recency |-> 50, team |-> 300, scarcity |-> 50]

(* a click on one of the preset buttons, drawn when there are results *)
Preset ==
    /\ search_results # <<>>
    /\ \E w \in {PRESET_BALANCE, PRESET_HIDDEN_GEM, PRESET_TREND, PRESET_LARGE} :
           analysis_weights' = w
    /\ UNCHANGED <<score, inventory, trash, search_results, bias_summary, search_page,
                   analysis_page, is_exact_search, sort_option, sort_selector>>
    /\ Click

WeightNames == {"evidence", "recency", "team", "scarcity"}

(* the positions a slider of range 0.0 .. 3.0 is moved to, in hundredths:  *)
(* multiples of 0.25, which the floats of the program hold exactly, so     *)
(* that int() of the weighted sum is the truncation of the exact sum       *)
SliderValues == {0, 25, 150, 200}

(* lines 748-753: the user moves one of the four sliders *)
MoveSlider ==
    /\ search_results # <<>>
    /\ \E name \in WeightNames : \E v \in SliderValues :
        /\ v # analysis_weights[name]
        /\ analysis_weights' = [analysis_weights EXCEPT ![name] = v]
    /\ UNCHANGED <<score, inventory, trash, search_results, bias_summary, search_page,
                   analysis_page, is_exact_search, sort_option, sort_selector>>
    /\ Click

(* line 766: age_score = max(0, (5 - paper.get('age', 5)) * 10) *)
age_score(paper) == max(0, (5 - paper.age) * 10)

(* mutant: the volume penalty is weighted like the scarcity term *)
custom_score_weighted_volume(paper, w) ==
    LET ev_score == paper.score_breakdown.Evidence
        team_score == paper.score_breakdown.Team
        vol_penalty == paper.score_breakdown.VolumePenalty
        scarcity_score == min(50, max(0, 50 - paper.citation_count))
    IN  int_div(ev_score * w.evidence + team_score * w.team + age_score(paper) * w.recency
                + scarcity_score * w.scarcity + vol_penalty * w.scarcity, 100)

(* lines 762-778: custom_score of a search result under weights w *)
custom_score(paper, w) ==
    LET ev_score == paper.score_breakdown.Evidence
        team_score == paper.score_breakdown.Team
        vol_penalty == paper.score_breakdown.VolumePenalty
        scarcity_score == min(50, max(0, 50 - paper.citation_count))
    IN  int_div(ev_score * w.evidence + team_score * w.team + age_score(paper) * w.recency
                + scarcity_score * w.scarcity + vol_penalty * 100, 100)

(* lines 760-781: the copies shown in the analysis tab; a copy is a new    *)
(* object, which gets its identity when the session stores it              *)
analyzed_papers ==
    LET copies == [k \in DOMAIN search_results |->
                      [search_results[k] EXCEPT
                          !.oid = 0,
                          !.custom_score = Some(custom_score(search_results[k], analysis_weights))]]
    IN  StableSort(copies, LAMBDA x, y : Val(x.custom_score) > Val(y.custom_score))

(* lines 832-840 *)
CollectAnalysis ==
    /\ \E i \in page_indices(Len(search_results), analysis_page) :
        LET paper == analyzed_papers[i]
            fresh == FreshOids(kept_oids \cup {p.oid : p \in SeqToSet(search_results)}, 1)[1]
        IN  /\ ~is_owned(paper)
            /\ inventory' = Append(inventory, [paper EXCEPT !.oid = fresh])
            /\ score' = score + paper.debiased_score
    /\ UNCHANGED <<trash, search_results, bias_summary, search_page, analysis_page,
                   is_exact_search, sort_option, analysis_weights, sort_selector>>
    /\ Click

(* mutant: deep verification is offered for every unreviewed paper *)
offers_deep_verify_any(paper) == ~paper.is_reviewed

(* lines 1017-1026: the deep verification button is drawn *)
offers_deep_verify(paper) ==
    ~paper.is_reviewed /\ paper.integrity_status = STATUS_VALID

(* lines 1017-1037: the force approval button is drawn *)
offers_force_approve(paper) ==
    ~paper.is_reviewed /\ paper.integrity_status # STATUS_VALID

(* mutant: the review adds the bonus to the stored Potential itself *)
reviewed_in_place(paper, bonus) ==
    [paper EXCEPT !.is_reviewed = TRUE,
                  !.debiased_score = paper.debiased_score + bonus,
                  !.final_score = Some(paper.debiased_score + bonus)]

(* paper['is_reviewed'] = True; paper['final_score'] = deb_s + bonus *)
reviewed(paper, bonus) ==
    [paper EXCEPT !.is_reviewed = TRUE, !.final_score = Some(paper.debiased_score + bonus)]

(* mutant: the half point of an odd Potential is rounded up *)
deep_bonus_rounded(deb_s) == (deb_s + 1) \div 2

(* bonus = int(deb_s * 0.5) *)
deep_bonus(deb_s) == deb_s \div 2

(* lines 1026-1035 *)
DeepVerify ==
    /\ \E display_items \in display_orders : \E i \in DOMAIN display_items :
        LET paper == display_items[i]
            bonus == deep_bonus(paper.debiased_score)
            update(p) == reviewed(p, bonus)
        IN  /\ offers_deep_verify(paper)
            /\ review_drawn(display_items, i)
            /\ score' = score + bonus
            /\ inventory' = assign(inventory, paper.oid, update)
            /\ trash' = assign(trash, paper.oid, update)
            /\ search_results' = assign(search_results, paper.oid, update)
    /\ UNCHANGED <<bias_summary, search_page, analysis_page, is_exact_search,
                   sort_option, analysis_weights, sort_selector>>
    /\ Click

(* lines 1036-1046 *)
ForceApprove ==
    /\ \E display_items \in display_orders : \E i \in DOMAIN display_items :
        LET paper == display_items[i]
            bonus == 10
            update(p) == [reviewed(p, bonus) EXCEPT !.potential_type = "verified_user",
                                                     !.reason = Some("verified by the user")]
        IN  /\ offers_force_approve(paper)
            /\ review_drawn(display_items, i)
            /\ score' = score + bonus
            /\ inventory' = assign(inventory, paper.oid, update)
            /\ trash' = assign(trash, paper.oid, update)
            /\ search_results' = assign(search_results, paper.oid, update)
    /\ UNCHANGED <<bias_summary, search_page, analysis_page, is_exact_search,
                   sort_option, analysis_weights, sort_selector>>
    /\ Click

(* lines 1049-1056 *)
Delete ==
    /\ \E display_items \in display_orders : \E i \in DOMAIN display_items :
        LET paper == display_items[i]
            deduction == value_of(paper)
        IN  /\ delete_drawn(display_items, i)
            /\ score' = max(0, score - deduction)
            /\ inventory' = SelectSeq(inventory, LAMBDA p : p.id # paper.id)
            /\ trash' = Append(trash, paper)
    /\ UNCHANGED <<search_results, bias_summary, search_page, analysis_page,
                   is_exact_search, sort_option, analysis_weights, sort_selector>>
    /\ Click

(* lines 1084-1091 *)
Restore ==
    /\ trash_drawn
    /\ \E i \in DOMAIN trash :
        LET restored == trash[i]
            r_score == value_of(restored)
        IN  /\ trash' = Remove(trash, i)
            /\ inventory' = Append(inventory, restored)
            /\ score' = score + r_score
    /\ UNCHANGED <<search_results, bias_summary, search_page, analysis_page,
                   is_exact_search, sort_option, analysis_weights, sort_selector>>
    /\ Click

(* lines 1093-1097 *)
PermanentDelete ==
    /\ trash_drawn
    /\ \E i \in DOMAIN trash : trash' = Remove(trash, i)
    /\ UNCHANGED <<score, inventory, search_results, bias_summary, search_page,
                   analysis_page, is_exact_search, sort_option, analysis_weights,
                   sort_selector>>
    /\ Click

(* lines 1063-1068 *)
EmptyTrash ==
    /\ trash_drawn
    /\ trash # <<>>
    /\ trash' = <<>>
    /\ UNCHANGED <<score, inventory, search_results, bias_summary, search_page,
                   analysis_page, is_exact_search, sort_option, analysis_weights,
                   sort_selector>>
    /\ Click

Init ==
    /\ paper_data = CHOOSE pd \in PaperData : TRUE
    /\ topic_multiplier = 10
    /\ eval_result = None
    /\ earlier = None
    /\ SessionInit
    /\ clicks_left = MaxClicks

Next ==
    \/ Search
    \/ SelectSort
    \/ CollectSearch
    \/ CollectAnalysis
    \/ DeepVerify
    \/ ForceApprove
    \/ Delete
    \/ Restore
    \/ PermanentDelete
    \/ EmptyTrash

Spec == Init /\ [][Next]_vars

(***************************************************************************)
(* AnalysisSpec: a short session in the search, analysis and inventory     *)
(* tabs in which the user also changes the weights of the analysis tab     *)
(***************************************************************************)
AnalysisInit ==
    /\ paper_data = CHOOSE pd \in PaperData : TRUE
    /\ topic_multiplier = 10
    /\ eval_result = None
    /\ earlier = None
    /\ SessionInit
    /\ clicks_left = MaxAnalysisClicks

AnalysisNext ==
    \/ Search
    \/ SelectSort
    \/ Preset
    \/ MoveSlider
    \/ CollectSearch
    \/ CollectAnalysis
    \/ DeepVerify
    \/ ForceApprove
    \/ Delete

AnalysisSpec == AnalysisInit /\ [][AnalysisNext]_vars

(***************************************************************************)
(* SearchSpec: a session in which the user only searches: the counts of    *)
(* PubMed range over the breakpoints of the topic multiplier, and Crossref *)
(* may answer a record with a negative citation count.  earlier keeps the  *)
(* hit count and the multiplier of the search before.                      *)
(***************************************************************************)
TopicSearch ==
    \E request \in topic_answers :
        /\ search_click(request)
        /\ earlier' = IF IsNone(bias_summary) THEN None
                      ELSE Some([pubmed_count |-> Val(bias_summary).pubmed_count,
                                 multiplier |-> Val(bias_summary).multiplier])
        /\ UNCHANGED <<paper_data, topic_multiplier, eval_result>>

SearchNext == TopicSearch

SearchSpec == Init /\ [][SearchNext]_vars

(***************************************************************************)
(* PageSpec: a session in which the user searches and turns the pages of   *)
(* the search and analysis tabs.  Crossref may answer more papers than a   *)
(* page holds.                                                             *)
(***************************************************************************)
(* the item at position k of a long answer *)
ITEM_P(k) ==
    [DOI |-> "10.1/p" \o ToString(k), title |-> <<"N","o","t","e">>, cit |-> k,
     year |-> Some(get_current_year - 1), author_count |-> 1, reference_count |-> Some(12)]

(* an answer one item longer than a page *)
LongBatch == [k \in 1..(items_per_page + 1) |-> ITEM_P(k)]

PageBatches == { <<>>, <<ITEM_B, ITEM_A>>, LongBatch }

page_answers ==
    { search_request(query, items, pubmed_count) :
        query \in Queries, items \in PageBatches, pubmed_count \in PubmedCounts }

(* total_pages = max(1, math.ceil(total_items / items_per_page)) *)
total_pages(total_items) == max(1, (total_items + items_per_page - 1) \div items_per_page)

(* the page numbers on the numbered buttons *)
display_pages(current_page, pages) ==
    IF pages <= 5 THEN 1..pages
    ELSE IF current_page <= 3 THEN 1..5
    ELSE IF current_page >= pages - 2 THEN (pages - 4)..pages
    ELSE (current_page - 2)..(current_page + 2)

(* st.number_input raises when its value argument is above max_value, and  *)
(* the run ends there, after the buttons of the same row were drawn        *)
number_input_drawn(current_page, pages) == current_page <= pages

total_pages_an == total_pages(Len(search_results))

(* the click on the search button *)
PageSearch ==
    \E request \in page_answers :
        /\ search_click(request)
        /\ UNCHANGED eval_vars

(* a click that sets search_page and nothing else *)
set_search_page(page) ==
    /\ search_results # <<>>
    /\ search_page' = page
    /\ UNCHANGED <<score, inventory, trash, search_results, bias_summary, analysis_page,
                   is_exact_search, sort_option, analysis_weights, sort_selector>>
    /\ Click

(* a click that sets analysis_page and nothing else *)
set_analysis_page(page) ==
    /\ search_results # <<>>
    /\ analysis_page' = page
    /\ UNCHANGED <<score, inventory, trash, search_results, bias_summary, search_page,
                   is_exact_search, sort_option, analysis_weights, sort_selector>>
    /\ Click

(* lines 679-682 *)
nav_prev ==
    /\ search_page # 1
    /\ set_search_page(search_page - 1)

(* lines 683-689 *)
nav_p ==
    \E p_num \in display_pages(search_page, total_pages(Len(search_results))) :
        set_search_page(p_num)

(* lines 690-693 *)
nav_next ==
    /\ search_page # total_pages(Len(search_results))
    /\ set_search_page(search_page + 1)

(* lines 694-698 *)
nav_search_input ==
    /\ number_input_drawn(search_page, total_pages(Len(search_results)))
    /\ \E new_page \in 1..total_pages(Len(search_results)) :
           /\ new_page # search_page
           /\ set_search_page(new_page)

(* lines 853-856 *)
nav_an_prev ==
    /\ analysis_page # 1
    /\ set_analysis_page(analysis_page - 1)

(* lines 857-863 *)
nav_an_p ==
    \E p_num \in display_pages(analysis_page, total_pages_an) :
        set_analysis_page(p_num)

(* lines 864-867 *)
nav_an_next ==
    /\ analysis_page # total_pages_an
    /\ set_analysis_page(analysis_page + 1)

(* lines 868-872 *)
nav_an_input ==
    /\ number_input_drawn(analysis_page, total_pages_an)
    /\ \E new_page_an \in 1..total_pages_an :
           /\ new_page_an # analysis_page
           /\ set_analysis_page(new_page_an)

PageInit ==
    /\ paper_data = CHOOSE pd \in PaperData : TRUE
    /\ topic_multiplier = 10
    /\ eval_result = None
    /\ earlier = None
    /\ SessionInit
    /\ clicks_left = MaxPageClicks

PageNext ==
    \/ PageSearch
    \/ nav_prev
    \/ nav_p
    \/ nav_next
    \/ nav_search_input
    \/ nav_an_prev
    \/ nav_an_p
    \/ nav_an_next
    \/ nav_an_input

PageSpec == PageInit /\ [][PageNext]_vars

(***************************************************************************)
(* Properties of evaluate_paper                                            *)
(***************************************************************************)
Evaluated == ~IsNone(eval_result)
Result == Val(eval_result)

(* C1: for every input with a non-negative citation count, evaluate_paper  *)
(* returns raw_score (Impact) in 0..99 and debiased_score (Potential) in   *)
(* 5..95.                                                                  *)
C1_ScoreRanges ==
    Evaluated =>
        /\ Result.raw_score \in 0..99
        /\ Result.debiased_score \in 5..95

(* the score before the clamp is below 5 and the clamp lifted it to 5 *)
C1_Witness ==
    /\ Evaluated
    /\ evaluate_locals(paper_data, topic_multiplier).debiased_score < 5
    /\ Result.debiased_score = 5
    /\ Result.raw_score = 99

(* C3: whenever integrity_status is not valid, the Potential score is       *)
(* exactly 5 and risk_reason is non-empty, whatever the bonuses, age and   *)
(* topic multiplier.                                                       *)
C3_FlaggedFloor ==
    (Evaluated /\ Result.integrity_status # STATUS_VALID) =>
        /\ Result.debiased_score = 5
        /\ Result.risk_reason # ""

(* a suspected paper with both bonuses, recent, floored to 5 *)
C3_Witness ==
    /\ Evaluated
    /\ Result.integrity_status = STATUS_SUSPECTED
    /\ Result.has_evidence
    /\ Result.is_big_team
    /\ Result.age <= 2
    /\ Result.debiased_score = 5

(* C4: integrity_status depends on (ref_count, citation_count) only, with  *)
(* both thresholds 5: uncertain iff ref_count is absent and citations < 5, *)
(* suspected iff ref_count is present, < 5 and citations < 5, else valid.  *)
C4_IntegrityRule ==
    Evaluated =>
        LET refs == paper_data.ref_count
            cit == paper_data.citations
        IN  /\ (Result.integrity_status = STATUS_UNCERTAIN) <=> (IsNone(refs) /\ cit < 5)
            /\ (Result.integrity_status = STATUS_SUSPECTED)
                   <=> (~IsNone(refs) /\ Val(refs) < 5 /\ cit < 5)
            /\ (Result.integrity_status = STATUS_VALID)
                   <=> ~(cit < 5 /\ (IsNone(refs) \/ Val(refs) < 5))
            /\ cit >= 5 => Result.integrity_status = STATUS_VALID

(* ref_count = 0 is present, so the paper is suspected, not uncertain *)
C4_Witness ==
    /\ Evaluated
    /\ paper_data.ref_count = Some(0)
    /\ paper_data.citations < 5
    /\ Result.integrity_status = STATUS_SUSPECTED

(* C5: the classification is the function of (potential_score,             *)
(* bias_penalty, integrity_status) given by the precedence amazing,        *)
(* bubble, bad, normal.                                                    *)
C5_Classification ==
    Evaluated =>
        Result.potential_type =
            (IF Result.debiased_score > 70 /\ Result.bias_penalty < 0 THEN "amazing"
             ELSE IF Result.bias_penalty > 30 THEN "bubble"
             ELSE IF Result.integrity_status # STATUS_VALID THEN "bad"
             ELSE "normal")

(* a valid paper whose bias_penalty is between the two thresholds 20 and 30 *)
C5_Witness ==
    /\ Evaluated
    /\ Result.bias_penalty > 20
    /\ Result.bias_penalty <= 30
    /\ Result.integrity_status = STATUS_VALID
    /\ Result.potential_type = "normal"

(* C6: a valid paper with age > 10 and citation_count < 5 gets Potential 5 *)
(* and the obsolete-research reason while integrity_status stays valid.    *)
C6_ObsoleteFloor ==
    (Evaluated /\ Result.age > 10 /\ Result.citation_count < 5
               /\ Result.integrity_status = STATUS_VALID) =>
        /\ Result.debiased_score = 5
        /\ Result.risk_reason = REASON_OBSOLETE

(* age = 15, citation_count = 1, ref_count >= 5 *)
C6_Witness ==
    /\ Evaluated
    /\ Result.age = 15
    /\ Result.citation_count = 1
    /\ ~IsNone(paper_data.ref_count)
    /\ Val(paper_data.ref_count) >= 5
    /\ Result.integrity_status = STATUS_VALID
    /\ Result.debiased_score = 5
    /\ Result.risk_reason = REASON_OBSOLETE

(* C7 as stated: risk_reason is empty whenever integrity_status is valid. *)
C7_ValidHasNoReason ==
    (Evaluated /\ Result.integrity_status = STATUS_VALID) => Result.risk_reason = ""

(* C7 as amended: risk_reason is empty whenever integrity_status is valid  *)
(* and the obsolete-research override (age > 10 and citation_count < 5)    *)
(* did not fire.                                                           *)
C7_ValidNotObsoleteHasNoReason ==
    (Evaluated /\ Result.integrity_status = STATUS_VALID
               /\ ~(Result.age > 10 /\ Result.citation_count < 5)) =>
        Result.risk_reason = ""

(* a valid paper with few references but enough citations, not obsolete *)
C7_Witness ==
    /\ Evaluated
    /\ Result.integrity_status = STATUS_VALID
    /\ ~IsNone(paper_data.ref_count)
    /\ Val(paper_data.ref_count) < 5
    /\ Result.age <= 10
    /\ Result.risk_reason = ""

BreakdownSum(b) == b.Base + b.Evidence + b.Team + b.VolumePenalty + b.IntegrityPenalty

OverrideFired ==
    \/ Result.integrity_status # STATUS_VALID
    \/ (Result.age > 10 /\ Result.citation_count < 5)

(* C8: the entries of score_breakdown sum to the Potential score as it     *)
(* stands before the final clamp; the sum is 5 whenever the integrity or   *)
(* obsolete-research override fired.                                       *)
C8_BreakdownSum ==
    Evaluated =>
        LET total == BreakdownSum(Result.score_breakdown)
            before_clamp == evaluate_locals(paper_data, topic_multiplier).debiased_score
        IN  /\ total = before_clamp
            /\ OverrideFired => total = 5
            /\ total \in 5..95 => total = Result.debiased_score

(* an override fired on a paper whose score before the override was not 5 *)
C8_Witness ==
    /\ Evaluated
    /\ OverrideFired
    /\ Result.score_breakdown.IntegrityPenalty < 0
    /\ Result.score_breakdown.VolumePenalty < 0
    /\ BreakdownSum(Result.score_breakdown) = 5

(* C9: the Impact score is non-decreasing in the citation count, whatever  *)
(* the other inputs of the two evaluations are.                            *)
C9_ImpactMonotone ==
    (Evaluated /\ ~IsNone(earlier)) =>
        /\ Val(earlier).citation_count <= Result.citation_count
               => Val(earlier).raw_score <= Result.raw_score
        /\ Result.citation_count <= Val(earlier).citation_count
               => Result.raw_score <= Val(earlier).raw_score

(* two evaluations past the cap: more citations, the same score 99 *)
C9_Witness ==
    /\ Evaluated
    /\ ~IsNone(earlier)
    /\ Val(earlier).citation_count = 526
    /\ Result.citation_count = 5000
    /\ Val(earlier).raw_score = 99
    /\ Result.raw_score = 99

(* C10: citation_count = 0, age = 1, an evidence keyword in the title,     *)
(* author_count < 5, ref_count >= 5 and topic_multiplier = 1.0 give Impact *)
(* 5, a high Potential, a strongly negative bias_penalty and the           *)
(* classification amazing.                                                 *)
C10_Scenario1Amazing ==
    (/\ Evaluated
     /\ paper_data.citations = 0
     /\ get_current_year - paper_data.year = 1
     /\ has_evidence(lower(paper_data.title))
     /\ paper_data.author_count < 5
     /\ ~IsNone(paper_data.ref_count)
     /\ Val(paper_data.ref_count) >= 5
     /\ topic_multiplier = 10) =>
        /\ Result.raw_score = 5
        /\ Result.debiased_score >= 60
        /\ Result.bias_penalty <= -55
        /\ Result.potential_type = "amazing"

(* round(5 + 15 * ln(n)) for 1 <= n <= 10001 *)
round_5_log_15(n) ==
    5 + Cardinality({k \in DOMAIN ExpCeilHalf15 : ExpCeilHalf15[k] <= n})

(* C20 as stated: for every citation count c >= 0 the Impact score is      *)
(* 5 + 15 * ln(c + 1) rounded to the nearest integer and clamped to 0..99. *)
C20_ImpactRounded ==
    (Evaluated /\ paper_data.citations >= 0) =>
        Result.raw_score = max(0, min(99, round_5_log_15(paper_data.citations + 1)))

(* C20 as amended: the Impact score is 5 + 15 * ln(c + 1) truncated to an  *)
(* integer and clamped to 0..99: below the cap, s = raw_score - 5 is the   *)
(* integer with s <= 15 * ln(c + 1) < s + 1, that is                       *)
(* ceil(e^(s/15)) <= c + 1 < ceil(e^((s + 1)/15)); c = 0 gives 5.          *)
C20_ImpactTruncated ==
    (Evaluated /\ paper_data.citations >= 0) =>
        LET n == paper_data.citations + 1
            s == Result.raw_score - 5
        IN  /\ Result.raw_score \in 5..99
            /\ s > 0 => ExpCeil15[s] <= n
            /\ Result.raw_score < 99 => n < ExpCeil15[s + 1]
            /\ paper_data.citations = 0 => Result.raw_score = 5

(* c = 3: 5 + 15 * ln(4) = 25.79..., Impact 25 *)
C20_Witness ==
    /\ Evaluated
    /\ paper_data.citations = 3
    /\ Result.raw_score = 25
    /\ round_5_log_15(paper_data.citations + 1) = 26

(* round(4 * ln(n)) for 1 <= n <= 10001, clamped to 0..25 *)
round_log_4_clamped(n) ==
    max(0, min(25, Cardinality({k \in DOMAIN ExpCeilHalf4 : ExpCeilHalf4[k] <= n})))

(* ten times the factor applied to the discount of a paper of this age *)
AgeFactor(age) == IF age <= 2 THEN 1 ELSE IF age <= 5 THEN 5 ELSE 10

(* the Volume Penalty the evaluation subtracted *)
VolumePenalty == -Result.score_breakdown.VolumePenalty

(* C21 as stated: the volume penalty is round(raw * topic_multiplier),     *)
(* where raw is round(4 * ln(c + 1)) clamped to 0..25 and then multiplied  *)
(* by 0.1 if age <= 2, by 0.5 if 2 < age <= 5 and by 1 otherwise; the      *)
(* Volume Penalty entry is its negative.  A product that lies exactly      *)
(* between two integers may be rounded either way.                         *)
C21_VolumePenaltyRounded ==
    (Evaluated /\ paper_data.citations >= 0) =>
        LET raw == round_log_4_clamped(paper_data.citations + 1)
            thousandths == raw * AgeFactor(Result.age) * topic_multiplier
        IN  /\ 1000 * VolumePenalty - thousandths <= 500
            /\ thousandths - 1000 * VolumePenalty <= 500

(* C21 as amended: every step truncates.  With r the integer such that     *)
(* r <= 4 * ln(c + 1) < r + 1, capped at 25, d = r for age > 5,            *)
(* d = int(r * 0.5) for 2 < age <= 5 and d = int(r * 0.1) for age <= 2,    *)
(* the volume penalty is p = int(d * topic_multiplier); the Volume Penalty *)
(* entry is -p, and p is what a paper that is neither flagged nor obsolete *)
(* loses from its debiased base (the result is never below 5).             *)
C21_VolumePenaltyTruncated ==
    (Evaluated /\ paper_data.citations >= 0) =>
        \E r \in 0..25, d \in 0..25 :
            /\ r > 0 => ExpCeil4[r] <= paper_data.citations + 1
            /\ r < 25 => paper_data.citations + 1 < ExpCeil4[r + 1]
            /\ d * 10 <= r * AgeFactor(Result.age)
            /\ r * AgeFactor(Result.age) < (d + 1) * 10
            /\ VolumePenalty * 10 <= d * topic_multiplier
            /\ d * topic_multiplier < (VolumePenalty + 1) * 10
            /\ ~OverrideFired =>
                   Result.debiased_score =
                       max(5, Result.score_breakdown.Base + Result.score_breakdown.Evidence
                                + Result.score_breakdown.Team - VolumePenalty)

(* c = 8, age 3, multiplier 1.5: 4 * ln(9) = 8.78..., r = 8, d = 4, p = 6, *)
(* where rounding gives round(9 * 0.5 * 1.5) = 7                           *)
C21_Witness ==
    /\ Evaluated
    /\ paper_data.citations = 8
    /\ Result.age = 3
    /\ topic_multiplier = 15
    /\ VolumePenalty = 6
    /\ round_log_4_clamped(paper_data.citations + 1) = 9
    /\ ~OverrideFired

C11_FlaggedIsBad ==
    Evaluated =>
        /\ Result.integrity_status # STATUS_VALID =>
               /\ Result.citation_count < 5
               /\ Result.bias_penalty <= 30
               /\ Result.debiased_score = 5
               /\ Result.potential_type = "bad"
        /\ Result.potential_type = "bad" => Result.integrity_status # STATUS_VALID

(* scenario 3: ref_count absent, citation_count = 2, a small team *)
C11_Witness ==
    /\ Evaluated
    /\ IsNone(paper_data.ref_count)
    /\ paper_data.citations = 2
    /\ ~Result.is_big_team
    /\ Result.integrity_status = STATUS_UNCERTAIN
    /\ Result.debiased_score = 5
    /\ Result.potential_type = "bad"

(***************************************************************************)
(* Properties of the session                                               *)
(***************************************************************************)
HeldPapers == SeqToSet(search_results) \cup SeqToSet(inventory) \cup SeqToSet(trash)

(* C2: bias_penalty equals raw_score minus debiased_score for every paper  *)
(* held in search results, inventory or trash, after any sequence of       *)
(* collect, deep verification, force approve, delete and restore.          *)
C2_BiasPenaltyExact ==
    \A p \in HeldPapers : p.bias_penalty = p.raw_score - p.debiased_score

(* a deep-verified paper is in the inventory, a force-approved one is in   *)
(* the trash, and both are still among the search results                  *)
C2_Witness ==
    /\ \E p \in SeqToSet(inventory) : p.is_reviewed /\ p.potential_type # "verified_user"
    /\ \E p \in SeqToSet(trash) : p.potential_type = "verified_user"
    /\ \A p \in SeqToSet(search_results) : p.is_reviewed

(***************************************************************************)
(* Properties of a search                                                  *)
(***************************************************************************)
Summary == Val(bias_summary)
Answered == Val(answer)

(* C12: the topic multiplier of a search is one of 1.0, 1.2, 1.5, 2.0, is  *)
(* the step function of the hit count with breakpoints > 1000, > 5000 and  *)
(* > 10000, never decreases when the hit count grows from one search to    *)
(* the next, and is 1.0 when the hit count is unavailable, in which case   *)
(* the batch is still evaluated and returned.                              *)
C12_TopicMultiplier ==
    /\ ~IsNone(bias_summary) =>
           /\ Summary.multiplier \in {10, 12, 15, 20}
           /\ Summary.multiplier =
                  (IF IsNone(Summary.pubmed_count) THEN 10
                   ELSE IF Val(Summary.pubmed_count) > 10000 THEN 20
                   ELSE IF Val(Summary.pubmed_count) > 5000 THEN 15
                   ELSE IF Val(Summary.pubmed_count) > 1000 THEN 12
                   ELSE 10)
           /\ (/\ ~IsNone(earlier)
               /\ ~IsNone(Val(earlier).pubmed_count)
               /\ ~IsNone(Summary.pubmed_count)
               /\ Val(Val(earlier).pubmed_count) <= Val(Summary.pubmed_count))
                  => Val(earlier).multiplier <= Summary.multiplier
    /\ (/\ ~IsNone(answer)
        /\ Answered.items # <<>>
        /\ IsNone(Answered.pubmed_count)
        /\ ~search_raises(Answered.items)) =>
           /\ IsNone(raised)
           /\ ~IsNone(bias_summary)
           /\ Summary.multiplier = 10
           /\ Len(search_results) = Len(evaluated_items(Answered.items))
           /\ \A i \in DOMAIN search_results :
                  LET paper == search_results[i]
                  IN  -paper.score_breakdown.VolumePenalty =
                          base_volume_discount(paper.citation_count, paper.age)

(* a search with 5001 hits after one with 5000 hits, and a search without  *)
(* a hit count that returned its papers                                    *)
C12_Witness ==
    /\ ~IsNone(bias_summary)
    /\ ~IsNone(earlier)
    /\ Val(earlier).pubmed_count = Some(5000)
    /\ Val(earlier).multiplier = 12
    /\ Summary.pubmed_count = Some(5001)
    /\ Summary.multiplier = 15
    /\ search_results # <<>>

(* C18: a record whose citation count is negative is evaluated as if the   *)
(* count were 0: the search does not raise, the rest of the batch is still *)
(* evaluated and returned, and the record's Impact score is 5.             *)
C18_NegativeCitationsClamped ==
    (/\ ~IsNone(answer)
     /\ \E i \in DOMAIN Answered.items :
            Answered.items[i].author_count > 0 /\ Answered.items[i].cit < 0) =>
        /\ IsNone(raised)
        /\ Len(search_results) = Len(evaluated_items(Answered.items))
        /\ \A i \in DOMAIN search_results :
               /\ \E j \in DOMAIN Answered.items :
                      Answered.items[j].DOI = search_results[i].id
               /\ search_results[i].citations < 0 => search_results[i].raw_score = 5

(***************************************************************************)
(* Properties of the analysis tab                                          *)
(***************************************************************************)

(* the score of one term of the custom score, before weighting *)
Term(paper, name) ==
    CASE name = "evidence" -> paper.score_breakdown.Evidence
      [] name = "team" -> paper.score_breakdown.Team
      [] name = "recency" -> max(0, (5 - paper.age) * 10)
      [] name = "scarcity" -> min(50, max(0, 50 - paper.citation_count))

(* the weighted sum of the terms plus the unweighted volume penalty, in    *)
(* hundredths                                                              *)
WeightedSum(paper, w) ==
    Term(paper, "evidence") * w.evidence + Term(paper, "team") * w.team
    + Term(paper, "recency") * w.recency + Term(paper, "scarcity") * w.scarcity
    + paper.score_breakdown.VolumePenalty * 100

(* the step changes the weight called name and nothing else *)
OnlyWeightChanged(name) ==
    /\ search_results' = search_results
    /\ analysis_weights'[name] # analysis_weights[name]
    /\ \A other \in WeightNames \ {name} :
           analysis_weights'[other] = analysis_weights[other]

Abs(n) == IF n >= 0 THEN n ELSE -n

(* C13 as stated: custom_score equals the weighted sum, so multiplying one  *)
(* weight by k changes it by exactly (k - 1) times the previous            *)
(* contribution of that term, the other terms being unchanged.             *)
C13_LinearInWeights ==
    [][\A name \in WeightNames :
          (OnlyWeightChanged(name) /\ analysis_weights[name] > 0) =>
              \A i \in DOMAIN search_results :
                  LET paper == search_results[i]
                      before == custom_score(paper, analysis_weights)
                      after == custom_score(paper, analysis_weights')
                  IN  /\ after * 100 = WeightedSum(paper, analysis_weights')
                      /\ (after - before) * 100 =
                             Term(paper, name)
                                 * (analysis_weights'[name] - analysis_weights[name])]_vars

(* n is the truncation toward zero of sum / 100 *)
Truncates(n, sum) ==
    IF sum >= 0 THEN n * 100 <= sum /\ sum < n * 100 + 100
    ELSE n * 100 >= sum /\ sum > n * 100 - 100

Whole(w) == \A name \in WeightNames : w[name] % 100 = 0

(* C13 as amended: custom_score is the weighted sum truncated toward zero  *)
(* to an integer.  Changing one weight changes it by exactly the change of *)
(* that term's contribution when the weights before and after are whole    *)
(* numbers, and otherwise by that change to within 2.                      *)
C13_LinearUpToTruncation ==
    [][\A name \in WeightNames :
          OnlyWeightChanged(name) =>
              \A i \in DOMAIN search_results :
                  LET paper == search_results[i]
                      before == custom_score(paper, analysis_weights)
                      after == custom_score(paper, analysis_weights')
                      change == Term(paper, name)
                                    * (analysis_weights'[name] - analysis_weights[name])
                  IN  /\ Truncates(after, WeightedSum(paper, analysis_weights'))
                      /\ Abs((after - before) * 100 - change) <= 200
                      /\ (Whole(analysis_weights) /\ Whole(analysis_weights')) =>
                             /\ after * 100 = WeightedSum(paper, analysis_weights')
                             /\ (after - before) * 100 = change]_vars

(* a weight was moved to 0.25 and a result with the evidence bonus has a   *)
(* weighted sum that is not a whole number, so that its custom score is    *)
(* the sum cut off                                                         *)
C13_Witness ==
    /\ analysis_weights.evidence = 25
    /\ \E i \in DOMAIN search_results :
           LET paper == search_results[i]
           IN  /\ Term(paper, "evidence") = 30
               /\ WeightedSum(paper, analysis_weights) % 100 # 0
               /\ Truncates(custom_score(paper, analysis_weights),
                            WeightedSum(paper, analysis_weights))

(* C14: the custom score is view-only: whatever the user searched, weighed, *)
(* collected from either tab, reviewed or deleted, no record of the        *)
(* inventory or the trash carries a custom_score, and the search results   *)
(* keep the Potential score their evaluation gave them.                    *)
C14_CustomScoreViewOnly ==
    /\ \A p \in SeqToSet(inventory) \cup SeqToSet(trash) : IsNone(p.custom_score)
    /\ \A p \in SeqToSet(search_results) :
           /\ IsNone(p.custom_score)
           /\ p.debiased_score = clamp_debiased(BreakdownSum(p.score_breakdown))

(* C22: for every paper of the search results, whatever its publication    *)
(* year, the recency term of custom_score is within 0..50: it is           *)
(* max(0, (5 - age) * 10), which is 0 from age 5 on and never above 50.    *)
C22_RecencyRange ==
    \A paper \in SeqToSet(search_results) :
        /\ age_score(paper) = max(0, (5 - paper.age) * 10)
        /\ paper.age >= 5 => age_score(paper) = 0
        /\ age_score(paper) \in 0..50

(***************************************************************************)
(* Properties of the reviews                                               *)
(***************************************************************************)

(* the step reviews the inventory entry before, which is the entry after *)
Reviews(before, after) ==
    /\ before.oid = after.oid
    /\ ~before.is_reviewed
    /\ after.is_reviewed

(* round(n * 0.5) of Python: to the nearest integer, a half to the even one *)
round_half(n) ==
    IF n % 2 = 0 THEN n \div 2
    ELSE IF (n \div 2) % 2 = 0 THEN n \div 2 ELSE n \div 2 + 1

(* C15 as stated: a review sets final_score = potential_score + bonus with  *)
(* bonus = potential_score * 0.5 rounded to the nearest integer for deep   *)
(* verification and 10 for force approval, and adds the bonus to the score *)
C15_ReviewBonusRounded ==
    [][\A i \in DOMAIN inventory : \A j \in DOMAIN inventory' :
          Reviews(inventory[i], inventory'[j]) =>
              LET deb_s == inventory[i].debiased_score
                  bonus == IF inventory[i].integrity_status = STATUS_VALID
                           THEN round_half(deb_s) ELSE 10
              IN  /\ inventory'[j].final_score = Some(deb_s + bonus)
                  /\ score' = score + bonus]_vars

(* C15 as amended: the bonus of deep verification is potential_score * 0.5 *)
(* truncated to an integer; the rest as stated.                            *)
C15_ReviewBonusTruncated ==
    [][\A i \in DOMAIN inventory : \A j \in DOMAIN inventory' :
          Reviews(inventory[i], inventory'[j]) =>
              LET deb_s == inventory[i].debiased_score
                  bonus == IF inventory[i].integrity_status = STATUS_VALID
                           THEN (deb_s - (deb_s % 2)) \div 2 ELSE 10
              IN  /\ inventory'[j].final_score = Some(deb_s + bonus)
                  /\ score' = score + bonus]_vars

(* a valid paper of Potential 15 was deep-verified to 22, and a flagged    *)
(* paper of Potential 5 was force-approved to 15                           *)
C15_Witness ==
    /\ \E p \in SeqToSet(inventory) :
           /\ p.is_reviewed
           /\ p.integrity_status = STATUS_VALID
           /\ p.debiased_score = 15
           /\ p.final_score = Some(22)
    /\ \E p \in SeqToSet(inventory) \cup SeqToSet(trash) :
           /\ p.potential_type = "verified_user"
           /\ p.debiased_score = 5
           /\ p.final_score = Some(15)

(* C16: deep verification reviews only unreviewed valid papers and leaves  *)
(* the classification unchanged; force approval reviews only unreviewed    *)
(* flagged papers and reclassifies them to verified_user.  Hence a paper   *)
(* classified verified_user is reviewed and not valid.                     *)
C16_ReviewClasses ==
    [][/\ \A i \in DOMAIN inventory : \A j \in DOMAIN inventory' :
             Reviews(inventory[i], inventory'[j]) =>
                 /\ inventory'[j].integrity_status = inventory[i].integrity_status
                 /\ inventory[i].integrity_status = STATUS_VALID =>
                        inventory'[j].potential_type = inventory[i].potential_type
                 /\ inventory[i].integrity_status # STATUS_VALID =>
                        inventory'[j].potential_type = "verified_user"
       /\ \A p \in HeldPapers' :
             p.potential_type = "verified_user" =>
                 p.is_reviewed /\ p.integrity_status # STATUS_VALID]_vars

(* a deep-verified paper kept its class bubble and a force-approved paper  *)
(* became verified_user, both still in the inventory                       *)
C16_Witness ==
    /\ \E p \in SeqToSet(inventory) :
           /\ p.is_reviewed
           /\ p.integrity_status = STATUS_VALID
           /\ p.potential_type = "bubble"
    /\ \E p \in SeqToSet(inventory) :
           /\ p.is_reviewed
           /\ p.integrity_status # STATUS_VALID
           /\ p.potential_type = "verified_user"

(* the records of the inventory and the trash *)
KeptPapers == SeqToSet(inventory) \cup SeqToSet(trash)

(* C17: review is a one-time transition: once a record of a paper is       *)
(* reviewed, no step (deep verification, force approval, delete, restore,  *)
(* collecting the paper again from the search or analysis tab) reviews the *)
(* paper again and awards its bonus a second time, and no step changes the *)
(* final_score of a reviewed record.                                       *)
C17_ReviewedOnce ==
    [][/\ \A p \in KeptPapers : \A q \in KeptPapers' :
             (p.oid = q.oid /\ p.is_reviewed) =>
                 q.is_reviewed /\ q.final_score = p.final_score
       /\ \A i \in DOMAIN inventory : \A j \in DOMAIN inventory' :
             Reviews(inventory[i], inventory'[j]) =>
                 ~\E p \in HeldPapers : p.id = inventory[i].id /\ p.is_reviewed]_vars

(***************************************************************************)
(* Properties of the collection                                            *)
(***************************************************************************)
(* what the inventory is worth: final_score of a reviewed paper,           *)
(* debiased_score of any other                                             *)
Worth(paper) ==
    IF paper.is_reviewed THEN Val(paper.final_score) ELSE paper.debiased_score

InventoryWorth == SeqSum([i \in DOMAIN inventory |-> Worth(inventory[i])])

(* C23: from a new user on, after any sequence of collect, deep            *)
(* verification, force approval, delete, restore, permanent delete and     *)
(* empty-trash operations, the score is the sum over the inventory of      *)
(* final_score for a reviewed paper and debiased_score for any other.      *)
C23_ScoreIsInventoryWorth == score = InventoryWorth

(* C24: after any sequence of collect (from either tab), delete, restore   *)
(* and permanent-delete operations, no two papers of the inventory have    *)
(* the same id.                                                            *)
C24_InventoryIdsUnique ==
    \A i, j \in DOMAIN inventory : inventory[i].id = inventory[j].id => i = j

(***************************************************************************)
(* Properties of the pages                                                 *)
(***************************************************************************)
(* C25: after any sequence of searches and page navigations in the search  *)
(* and analysis tabs, analysis_page is within 1..total_pages of the        *)
(* current result list, total_pages being max(1, ceil(results / 50)).      *)
C25_AnalysisPageInRange == analysis_page \in 1..total_pages_an

(***************************************************************************)
(* Properties of the result list                                           *)
(***************************************************************************)
InRelevanceOrder(list) ==
    \A i, j \in DOMAIN list : i < j => list[i].original_rank <= list[j].original_rank

InPotentialOrder(list) ==
    \A i, j \in DOMAIN list : i < j => list[i].debiased_score >= list[j].debiased_score

(* C19: the search of a quoted query leaves the result list shown to the   *)
(* user in relevance order (original_rank ascending), the search of an     *)
(* unquoted query leaves it in Potential (debiased_score) descending       *)
(* order.                                                                  *)
C19_SearchOrder ==
    [][Search =>
          IF is_exact_search'
          THEN InRelevanceOrder(search_results')
          ELSE InPotentialOrder(search_results')]_vars

====
